---- MODULE Spec2Model ----
(***************************************************************************)
(* A model of the zl logging facade (nkmr-jp/zap-lightning).               *)
(*                                                                         *)
(* src/zl.go holds the lifecycle (Init, newZapLogger, Sync, SyncWhenStop,  *)
(* Cleanup) and src/zl/options.go holds the setters and the emission API   *)
(* (Debug .. FatalErr, ErrRet, Dump, the Logger methods, checkInit).       *)
(* options.go names the level and the omission list logLevel and           *)
(* ignoreKeys, zl.go names the same two package variables severityLevel    *)
(* and omitKeys; the model uses the names of zl.go.  zl.go writes the name *)
(* key as LoggerKey, options.go declares it as NameKey ("name").           *)
(*                                                                         *)
(* The structured engine (zap), the rotating file and the pretty renderer  *)
(* are collaborators: the engine is the value newZapLogger builds (its     *)
(* sinks, its minimum level, its encoder keys and its fixed fields), a     *)
(* sink is a name, and a record is the set of keys it carries.             *)
(***************************************************************************)
EXTENDS Integers, Sequences, FiniteSets, TLC

(***************************************************************************)
(* Bounds of the model.                                                    *)
(***************************************************************************)
\* threads that call Init
NThreads == 2
\* calls of Cleanup in one behaviour
MaxCleanups == 1
\* setter calls made while an engine exists
MaxLateSets == 0
\* setter calls made while an engine exists, in SpecLate
MaxLateSetsLate == 1
\* signal-flush tasks started by SyncWhenStop
MaxTasks == 1

Threads == 1..NThreads
Tasks == 1..MaxTasks

(***************************************************************************)
(* Level (options.go 26-34): the values of zapcore's levels.               *)
(***************************************************************************)
DebugLevel == -1
InfoLevel == 0
WarnLevel == 1
ErrorLevel == 2
FatalLevel == 5
Levels == {DebugLevel, InfoLevel, WarnLevel, ErrorLevel, FatalLevel}

(***************************************************************************)
(* Output (options.go 36-56).                                              *)
(***************************************************************************)
PrettyOutput == 0
ConsoleAndFileOutput == 1
ConsoleOutput == 2
FileOutput == 3
Outputs == {PrettyOutput, ConsoleAndFileOutput, ConsoleOutput, FileOutput}

(***************************************************************************)
(* Key (options.go 14-24; zl.go 112, 131 for LoggerKey and PIDKey).        *)
(***************************************************************************)
MessageKey == "message"
LevelKey == "level"
TimeKey == "time"
LoggerKey == "name"
CallerKey == "caller"
FunctionKey == "function"
StacktraceKey == "stacktrace"
VersionKey == "version"
HostnameKey == "hostname"
PIDKey == "pid"
Keys == {MessageKey, LevelKey, TimeKey, LoggerKey, CallerKey, FunctionKey,
         StacktraceKey, VersionKey, HostnameKey, PIDKey}

\* zapcore.OmitKey
OmitKey == ""

\* the fields of zapcore.EncoderConfig that name a key
EncoderFields == {"MessageKey", "LevelKey", "TimeKey", "NameKey", "CallerKey",
                  "FunctionKey", "StacktraceKey"}

\* the byte sinks
Stdout == "stdout"
Stderr == "stderr"
Rotator == "file"

\* keys a caller supplies with a record, and the key of zap.Error
ErrorField == "error"
ConsoleField == "console"
UserField == "user_name"
RequestField == "request_id"

\* error values a caller passes
Errors == {"e1", "e2"}
NoError == "nil"

\* os.Getpid()
ThePid == 7

VARIABLES
  outputType,     \* zl.go 28
  severityLevel,  \* zl.go 30
  omitKeys,       \* zl.go 33
  isStdOut,       \* zl.go 34
  pid,            \* zl.go 36
  once,           \* zl.go 25: [done, m] of sync.Once, m the thread holding its mutex
  pretty,         \* zl.go 26: TRUE when a renderer is installed
  zapLogger,      \* zl.go 27: the engine, or NilLogger
  pc,             \* where each thread stands in Init
  lg,             \* a Logger built by New, or NoLogger
  task,           \* the goroutines started by SyncWhenStop
  proc,           \* the process: running or exited, with the exit code
  last,           \* what the last emission or Sync since the last Cleanup did
  hist,           \* history of the current initialization: its body, its marker,
                  \* the configuration it read, what os.Hostname gave it
  calls           \* the calls the bounds count

vars == <<outputType, severityLevel, omitKeys, isStdOut, pid, once, pretty,
          zapLogger, pc, lg, task, proc, last, hist, calls>>

(***************************************************************************)
(* Encoder/Sink Builder: zl.go 61-136, 189-223.                            *)
(***************************************************************************)
\* zl.go 62-74: the key of every encoder field before omission
encoderConfig ==
  [f \in EncoderFields |->
     CASE f = "MessageKey" -> MessageKey
       [] f = "LevelKey" -> LevelKey
       [] f = "TimeKey" -> TimeKey
       [] f = "NameKey" -> LoggerKey
       [] f = "CallerKey" -> CallerKey
       [] f = "FunctionKey" -> FunctionKey
       [] f = "StacktraceKey" -> StacktraceKey]

\* a switch that forgets the time key
OmitCaseNoTime(k) ==
  CASE k = MessageKey -> "MessageKey"
    [] k = LevelKey -> "LevelKey"
    [] k = LoggerKey -> "NameKey"
    [] k = CallerKey -> "CallerKey"
    [] k = FunctionKey -> "FunctionKey"
    [] k = StacktraceKey -> "StacktraceKey"
    [] OTHER -> "none"

\* zl.go 105-120: the encoder field the switch clears for key k
OmitCase(k) ==
  CASE k = MessageKey -> "MessageKey"
    [] k = LevelKey -> "LevelKey"
    [] k = TimeKey -> "TimeKey"
    [] k = LoggerKey -> "NameKey"
    [] k = CallerKey -> "CallerKey"
    [] k = FunctionKey -> "FunctionKey"
    [] k = StacktraceKey -> "StacktraceKey"
    [] OTHER -> "none"

\* zl.go 103-122: every key of the list clears its encoder field
setOmitKeys(enc, keys) ==
  [f \in DOMAIN enc |->
     IF \E k \in keys : OmitCase(k) = f THEN OmitKey ELSE enc[f]]

\* zl.go 189-196: the host name, or nil when os.Hostname fails
getHost(hostOk) == IF hostOk THEN "host" ELSE "nil"

\* zl.go 129: *getHost() dereferences nil when the resolution failed
HostPanics(keys, hostOk) == HostnameKey \notin keys /\ getHost(hostOk) = "nil"

\* zl.go 124-136: the keys of the fields attached to every record
getAdditionalFields(keys) ==
  (IF VersionKey \notin keys THEN {VersionKey} ELSE {})
    \cup (IF HostnameKey \notin keys THEN {HostnameKey} ELSE {})
    \cup (IF PIDKey \notin keys THEN {PIDKey} ELSE {})

\* zl.go 217-223
getConsoleOutput(std) == IF std THEN Stdout ELSE Stderr

\* a sink list that also writes the console in Pretty mode
getSyncersPrettyConsole(out, std) ==
  CASE out = PrettyOutput -> <<getConsoleOutput(std), Rotator>>
    [] out = FileOutput -> <<Rotator>>
    [] out = ConsoleAndFileOutput -> <<getConsoleOutput(std), Rotator>>
    [] out = ConsoleOutput -> <<getConsoleOutput(std)>>

\* zl.go 205-215
getSyncers(out, std) ==
  CASE out \in {PrettyOutput, FileOutput} -> <<Rotator>>
    [] out = ConsoleAndFileOutput -> <<getConsoleOutput(std), Rotator>>
    [] out = ConsoleOutput -> <<getConsoleOutput(std)>>

\* the nil *zap.Logger
NilLogger ==
  [nil |-> TRUE, sinks |-> <<>>, level |-> InfoLevel,
   enc |-> encoderConfig, with |-> {}]

\* an engine whose core takes every level
newZapLoggerAllLevels(out, std, lvl, keys) ==
  [nil |-> FALSE,
   sinks |-> getSyncers(out, std),
   level |-> DebugLevel,
   enc |-> setOmitKeys(encoderConfig, keys),
   with |-> getAdditionalFields(keys)]

\* zl.go 61-87: the engine built from the configuration
newZapLogger(out, std, lvl, keys) ==
  [nil |-> FALSE,
   sinks |-> getSyncers(out, std),
   level |-> lvl,
   enc |-> setOmitKeys(encoderConfig, keys),
   with |-> getAdditionalFields(keys)]

\* zl.go 77-81: the core writes a record to every sink when its level is enabled
Written(eng, zl) == IF zl >= eng.level THEN eng.sinks ELSE <<>>

\* zl.go 82-86: the encoder fields a record of level zl fills in
FilledFields(zl, named) ==
  {"MessageKey", "LevelKey", "TimeKey", "CallerKey", "FunctionKey"}
    \cup (IF named THEN {"NameKey"} ELSE {})
    \cup (IF zl >= ErrorLevel THEN {"StacktraceKey"} ELSE {})

\* the keys of the record the engine encodes
RecordKeys(eng, zl, named, fields) ==
  ({eng.enc[f] : f \in FilledFields(zl, named)} \ {OmitKey})
    \cup eng.with \cup fields

(***************************************************************************)
(* Logger Facade: options.go 371-567.                                      *)
(***************************************************************************)
FreeOps == {"Debug", "Info", "Warn", "Error", "Fatal", "DebugErr", "InfoErr",
            "WarnErr", "ErrorErr", "Err", "ErrRet", "FatalErr"}
ErrOps == {"DebugErr", "InfoErr", "WarnErr", "ErrorErr", "Err", "ErrRet", "FatalErr"}

\* the level an operation is named after (Err and ErrRet log at error level)
OpLevel(op) ==
  CASE op \in {"Debug", "DebugErr"} -> DebugLevel
    [] op \in {"Info", "InfoErr"} -> InfoLevel
    [] op \in {"Warn", "WarnErr"} -> WarnLevel
    [] op \in {"Error", "ErrorErr", "Err", "ErrRet"} -> ErrorLevel
    [] op \in {"Fatal", "FatalErr"} -> FatalLevel

\* options.go 470-529: the level a free function passes to logger/loggerErr
FreePrettyLevel(op) ==
  CASE op \in {"Debug", "DebugErr"} -> DebugLevel
    [] op \in {"Info", "InfoErr"} -> InfoLevel
    [] op \in {"Warn", "WarnErr"} -> WarnLevel
    [] op \in {"Error", "ErrorErr", "Err", "ErrRet"} -> ErrorLevel
    [] op \in {"Fatal", "FatalErr"} -> FatalLevel

\* options.go 470-529: the level of the engine method a free function calls
FreeZapLevel(op) ==
  CASE op \in {"Debug", "DebugErr"} -> DebugLevel
    [] op \in {"Info", "InfoErr"} -> InfoLevel
    [] op \in {"Warn", "WarnErr"} -> WarnLevel
    [] op \in {"Error", "ErrorErr", "Err", "ErrRet"} -> ErrorLevel
    [] op \in {"Fatal", "FatalErr"} -> FatalLevel

\* options.go 395-454: the level a Logger method passes to l.logger/l.loggerErr
MethodPrettyLevel(op) ==
  CASE op \in {"Debug", "DebugErr"} -> DebugLevel
    [] op \in {"Info", "InfoErr"} -> InfoLevel
    [] op \in {"Warn", "WarnErr"} -> WarnLevel
    [] op \in {"Error", "ErrorErr", "Err", "ErrRet"} -> ErrorLevel
    [] op \in {"Fatal", "FatalErr"} -> FatalLevel

\* options.go 395-454: the level of the engine method a Logger method calls;
\* Error (412) and Fatal (417) call the engine's Warn
MethodZapLevel(op) ==
  CASE op \in {"Debug", "DebugErr"} -> DebugLevel
    [] op \in {"Info", "InfoErr"} -> InfoLevel
    [] op \in {"Warn", "WarnErr", "Error", "Fatal"} -> WarnLevel
    [] op \in {"ErrorErr", "Err", "ErrRet"} -> ErrorLevel
    [] op = "FatalErr" -> FatalLevel

\* err.Error(): the text zap.Error stores in the error field
ErrorText(err) ==
  CASE err = "e1" -> "text of e1"
    [] err = "e2" -> "text of e2"
    [] OTHER -> NoError

\* a return statement that hands back another error
ErrRetValueOther(err) == IF err = "e1" THEN "e2" ELSE "e1"

\* options.go 448, 523: return err
ErrRetValue(err) == err

\* a check that lets every call through
checkInitNever(z) == TRUE

\* options.go 563-567: TRUE when the call goes on, FALSE when log.Fatal ends the process
checkInit(z) == ~z.nil

\* the renderer newPrettyLogger returns: one only in Pretty mode
newPrettyLogger(out) == out = PrettyOutput

\* pretty.log / pretty.logWithError: a console line when a renderer is installed
\* and the level is at or above the minimum level
PrettyLines(p, lvl, minLvl) == IF p /\ lvl >= minLvl THEN 1 ELSE 0

\* newLogger(encoderConfig) of New: the engine built from the configuration
newLogger(out, std, lvl, keys) == newZapLogger(out, std, lvl, keys)

(***************************************************************************)
(* Values of the state.                                                    *)
(***************************************************************************)
Cfg(out, std, lvl, keys) == [mode |-> out, stdout |-> std, level |-> lvl, omit |-> keys]

\* zl.go 24-37: the configuration a process starts with
DefaultCfg == Cfg(PrettyOutput, FALSE, InfoLevel, {})

Running == [state |-> "running", code |-> 0, by |-> "none"]
Exited(code, by) == [state |-> "exited", code |-> code, by |-> by]

NoLogger ==
  [nil |-> TRUE, pretty |-> FALSE, zapLogger |-> NilLogger, fields |-> {},
   named |-> FALSE, cfg |-> DefaultCfg]

NoLast ==
  [kind |-> "none", api |-> "none", who |-> "none", op |-> "none",
   opLvl |-> InfoLevel, zapLvl |-> InfoLevel, prettyLvls |-> {}, lines |-> 0,
   sent |-> 0, written |-> <<>>, keys |-> {}, err |-> NoError, ret |-> NoError,
   errMsg |-> NoError, outcome |-> "none", eng |-> NilLogger, cfg |-> DefaultCfg,
   done |-> FALSE, sev |-> InfoLevel, mode |-> PrettyOutput, flushed |-> FALSE]

NoTask == [pc |-> "none", sig |-> "none", markers |-> 0, syncs |-> 0, flushes |-> 0]

SinkNames == {Stdout, Stderr, Rotator}

\* zl.go 46-56: the text of the marker's console field, "Severity: .., Output: ..",
\* followed by ", PID: .." when the cached pid is not 0
InitConsole(sev, out, p) == [severity |-> sev, output |-> out, pid |-> p]

NoHist ==
  [bodyRuns |-> 0, bodyDone |-> FALSE, returned |-> {},
   markers |-> [s \in SinkNames |-> 0], cfg |-> DefaultCfg,
   console |-> InitConsole(InfoLevel, PrettyOutput, 0), host |-> "none"]


(***************************************************************************)
(* The state after the package variables are initialized: zl.go 24-37.     *)
(***************************************************************************)
InitState(lateMax) ==
  /\ outputType = PrettyOutput
  /\ severityLevel = InfoLevel
  /\ omitKeys = {}
  /\ isStdOut = FALSE
  /\ pid = 0
  /\ once = [done |-> FALSE, m |-> 0]
  /\ pretty = FALSE
  /\ zapLogger = NilLogger
  /\ pc = [t \in Threads |-> "idle"]
  /\ lg = NoLogger
  /\ task = [k \in Tasks |-> NoTask]
  /\ proc = Running
  /\ last = NoLast
  /\ hist = NoHist
  /\ calls = [cleanups |-> 0, lateSets |-> 0, lateMax |-> lateMax]

Init == InitState(MaxLateSets)

(***************************************************************************)
(* Config State: the setters of options.go 69-141.  A setter has no guard  *)
(* in the code; the model bounds the setter calls made once an engine      *)
(* exists, by the number a behaviour starts with (calls.lateMax).          *)
(***************************************************************************)
SetterBound ==
  /\ proc.state = "running"
  /\ (zapLogger.nil /\ lg.nil) \/ calls.lateSets < calls.lateMax
  /\ calls' = IF zapLogger.nil /\ lg.nil THEN calls
              ELSE [calls EXCEPT !.lateSets = @ + 1]

\* options.go 69-71
SetOutput(option) ==
  /\ SetterBound
  /\ outputType' = option
  /\ UNCHANGED <<severityLevel, omitKeys, isStdOut, pid, once, pretty, zapLogger,
                 pc, lg, task, proc, last, hist>>

\* options.go 92-94
SetLevel(option) ==
  /\ SetterBound
  /\ severityLevel' = option
  /\ UNCHANGED <<outputType, omitKeys, isStdOut, pid, once, pretty, zapLogger,
                 pc, lg, task, proc, last, hist>>

\* options.go 133-136
SetIgnoreKeys(key) ==
  /\ SetterBound
  /\ omitKeys' = key
  /\ UNCHANGED <<outputType, severityLevel, isStdOut, pid, once, pretty, zapLogger,
                 pc, lg, task, proc, last, hist>>

\* options.go 138-141
SetStdout ==
  /\ SetterBound
  /\ isStdOut' = TRUE
  /\ UNCHANGED <<outputType, severityLevel, omitKeys, pid, once, pretty, zapLogger,
                 pc, lg, task, proc, last, hist>>

(***************************************************************************)
(* One emission: the record of what it did.                                *)
(***************************************************************************)
Emitted(api, who, op, pl, zl, eng, cfg, p, named, fields, err, ret) ==
  [NoLast EXCEPT
     !.kind = "emit", !.api = api, !.who = who, !.op = op,
     !.opLvl = OpLevel(op), !.zapLvl = zl, !.prettyLvls = pl,
     !.lines = IF \E l \in pl : PrettyLines(p, l, severityLevel) = 1 THEN 1 ELSE 0,
     !.sent = 1,
     !.written = Written(eng, zl),
     !.keys = IF Written(eng, zl) = <<>> THEN {}
              ELSE RecordKeys(eng, zl, named, fields),
     !.err = err, !.ret = ret,
     !.errMsg = IF Written(eng, zl) # <<>> /\ ErrorField \in fields
                THEN ErrorText(err) ELSE NoError,
     !.outcome = IF zl = FatalLevel THEN "exit" ELSE "returned",
     !.eng = eng, !.cfg = cfg, !.done = hist.bodyDone, !.sev = severityLevel]

\* the call ended in log.Fatal (checkInit) or in a nil dereference
Aborted(api, who, op, err, how) ==
  [NoLast EXCEPT
     !.kind = "emit", !.api = api, !.who = who, !.op = op,
     !.opLvl = OpLevel(op), !.err = err, !.outcome = how,
     !.eng = zapLogger, !.cfg = hist.cfg, !.done = hist.bodyDone]

\* options.go 470-529, 541-561: a free function on the shared default instance
FreeCall(who, op, fields, err) ==
  IF ~checkInit(zapLogger)
  THEN /\ last' = Aborted("free", who, op, err, "uninit")
       /\ proc' = Exited(1, "checkInit")
  ELSE IF zapLogger.nil
  THEN /\ last' = Aborted("free", who, op, err, "panic")
       /\ proc' = Exited(2, "panic")
  ELSE /\ last' = Emitted("free", who, op, {FreePrettyLevel(op)}, FreeZapLevel(op),
                          zapLogger, hist.cfg, pretty, FALSE,
                          IF op \in ErrOps THEN fields \cup {ErrorField} ELSE fields,
                          IF op \in ErrOps THEN err ELSE NoError,
                          IF op = "ErrRet" THEN ErrRetValue(err) ELSE NoError)
       /\ proc' = IF FreeZapLevel(op) = FatalLevel THEN Exited(1, "fatal") ELSE proc

FreeEmit(op, fields, err) ==
  /\ proc.state = "running"
  /\ FreeCall("user", op, fields, err)
  /\ UNCHANGED <<outputType, severityLevel, omitKeys, isStdOut, pid, once, pretty,
                 zapLogger, pc, lg, task, hist, calls>>

\* options.go 536-539
Dump ==
  /\ proc.state = "running"
  /\ IF ~checkInit(zapLogger)
     THEN /\ last' = [NoLast EXCEPT !.kind = "emit", !.api = "free", !.who = "user",
                        !.op = "Dump", !.outcome = "uninit", !.eng = zapLogger,
                        !.cfg = hist.cfg, !.done = hist.bodyDone]
          /\ proc' = Exited(1, "checkInit")
     ELSE /\ last' = [NoLast EXCEPT !.kind = "emit", !.api = "free", !.who = "user",
                        !.op = "Dump", !.outcome = "returned", !.eng = zapLogger,
                        !.cfg = hist.cfg, !.done = hist.bodyDone,
                        !.lines = IF pretty THEN 1 ELSE 0]
          /\ proc' = proc
  /\ UNCHANGED <<outputType, severityLevel, omitKeys, isStdOut, pid, once, pretty,
                 zapLogger, pc, lg, task, hist, calls>>

\* options.go 379-385
New(fields) ==
  /\ proc.state = "running"
  /\ lg' = [nil |-> FALSE,
            pretty |-> newPrettyLogger(outputType),
            zapLogger |-> newLogger(outputType, isStdOut, severityLevel, omitKeys),
            fields |-> fields,
            named |-> FALSE,
            cfg |-> Cfg(outputType, isStdOut, severityLevel, omitKeys)]
  /\ UNCHANGED <<outputType, severityLevel, omitKeys, isStdOut, pid, once, pretty,
                 zapLogger, pc, task, proc, last, hist, calls>>

\* options.go 387-393
Named ==
  /\ proc.state = "running"
  /\ ~lg.nil
  /\ lg' = [lg EXCEPT !.named = TRUE]
  /\ UNCHANGED <<outputType, severityLevel, omitKeys, isStdOut, pid, once, pretty,
                 zapLogger, pc, task, proc, last, hist, calls>>

\* options.go 395-468: a method of a Logger built by New
MethodEmit(op, fields, err) ==
  /\ proc.state = "running"
  /\ ~lg.nil
  /\ last' = Emitted("method", "user", op,
                     IF lg.pretty THEN {MethodPrettyLevel(op)} ELSE {},
                     MethodZapLevel(op), lg.zapLogger, lg.cfg, lg.pretty, lg.named,
                     (IF op \in ErrOps THEN fields \cup {ErrorField} ELSE fields)
                       \cup lg.fields,
                     IF op \in ErrOps THEN err ELSE NoError,
                     IF op = "ErrRet" THEN ErrRetValue(err) ELSE NoError)
  /\ proc' = IF MethodZapLevel(op) = FatalLevel THEN Exited(1, "fatal") ELSE proc
  /\ UNCHANGED <<outputType, severityLevel, omitKeys, isStdOut, pid, once, pretty,
                 zapLogger, pc, lg, task, hist, calls>>


(***************************************************************************)
(* Lifecycle Supervisor: Init, zl.go 40-58.  once.Do is sync.Once: a call  *)
(* returns at once when done is set; otherwise it takes the mutex, runs    *)
(* the body if done is still unset, sets done (also when the body panics)  *)
(* and releases the mutex.                                                 *)
(***************************************************************************)
\* sync.Once.Do: the call returns without running the body
OnceFast(o) == o.done

\* zl.go 41: a thread calls Init
InitCall(t) ==
  /\ proc.state = "running"
  /\ pc[t] = "idle"
  /\ IF OnceFast(once)
     THEN /\ hist' = [hist EXCEPT !.returned = @ \cup {t}]
          /\ pc' = pc
     ELSE /\ pc' = [pc EXCEPT ![t] = "lock"]
          /\ hist' = hist
  /\ UNCHANGED <<outputType, severityLevel, omitKeys, isStdOut, pid, once, pretty,
                 zapLogger, lg, task, proc, last, calls>>

\* zl.go 41: the slow path of once.Do takes the mutex and looks at done again
InitLock(t) ==
  /\ proc.state = "running"
  /\ pc[t] = "lock"
  /\ once.m = 0
  /\ IF once.done
     THEN /\ hist' = [hist EXCEPT !.returned = @ \cup {t}]
          /\ pc' = [pc EXCEPT ![t] = "idle"]
          /\ once' = once
     ELSE /\ once' = [once EXCEPT !.m = t]
          /\ pc' = [pc EXCEPT ![t] = "pretty"]
          /\ hist' = [hist EXCEPT !.bodyRuns = @ + 1]
  /\ UNCHANGED <<outputType, severityLevel, omitKeys, isStdOut, pid, pretty,
                 zapLogger, lg, task, proc, last, calls>>

\* zl.go 42-44
InitPretty(t) ==
  /\ proc.state = "running"
  /\ pc[t] = "pretty"
  /\ pretty' = IF outputType = PrettyOutput THEN newPrettyLogger(outputType) ELSE pretty
  /\ pc' = [pc EXCEPT ![t] = "engine"]
  /\ UNCHANGED <<outputType, severityLevel, omitKeys, isStdOut, pid, once,
                 zapLogger, lg, task, proc, last, hist, calls>>

\* zl.go 45: zapLogger = newZapLogger(); a failed host name resolution panics in
\* getAdditionalFields (129) before the assignment, and once.Do sets done
InitEngine(t) ==
  /\ proc.state = "running"
  /\ pc[t] = "engine"
  /\ \E hostOk \in BOOLEAN :
       IF HostPanics(omitKeys, hostOk)
       THEN /\ once' = [done |-> TRUE, m |-> 0]
            /\ pc' = [pc EXCEPT ![t] = "panicked"]
            /\ hist' = [hist EXCEPT !.host = "failed"]
            /\ UNCHANGED <<zapLogger, pid>>
       ELSE /\ zapLogger' = newZapLogger(outputType, isStdOut, severityLevel, omitKeys)
            /\ pid' = IF PIDKey \notin omitKeys THEN ThePid ELSE pid
            /\ hist' = [hist EXCEPT
                          !.cfg = Cfg(outputType, isStdOut, severityLevel, omitKeys),
                          !.host = IF HostnameKey \in omitKeys THEN "unused" ELSE "ok"]
            /\ pc' = [pc EXCEPT ![t] = "marker"]
            /\ once' = once
  /\ UNCHANGED <<outputType, severityLevel, omitKeys, isStdOut, pretty, lg, task,
                 proc, last, calls>>

\* the marker of the earlier Init, logged with Info
MarkerOpInfo == "Info"

\* zl.go 50: the free function that logs INIT_LOGGER
MarkerOp == "Debug"

\* zl.go 46-56: Debug("INIT_LOGGER", Console(...)), the last statement of the body
InitMarker(t) ==
  /\ proc.state = "running"
  /\ pc[t] = "marker"
  /\ FreeCall("init", MarkerOp, {ConsoleField}, NoError)
  /\ hist' = [hist EXCEPT
                !.bodyDone = TRUE,
                !.console = InitConsole(severityLevel, outputType, pid),
                !.markers = [s \in SinkNames |->
                               IF \E i \in DOMAIN last'.written : last'.written[i] = s
                               THEN @[s] + 1 ELSE @[s]]]
  /\ pc' = [pc EXCEPT ![t] = "finish"]
  /\ UNCHANGED <<outputType, severityLevel, omitKeys, isStdOut, pid, once, pretty,
                 zapLogger, lg, task, calls>>

\* zl.go 57: once.Do sets done, releases the mutex, and Init returns
InitFinish(t) ==
  /\ proc.state = "running"
  /\ pc[t] = "finish"
  /\ once' = [done |-> TRUE, m |-> 0]
  /\ pc' = [pc EXCEPT ![t] = "idle"]
  /\ hist' = [hist EXCEPT !.returned = @ \cup {t}]
  /\ UNCHANGED <<outputType, severityLevel, omitKeys, isStdOut, pid, pretty,
                 zapLogger, lg, task, proc, last, calls>>

\* the panic of InitEngine is not recovered: the runtime ends the process
Crash ==
  /\ proc.state = "running"
  /\ \E t \in Threads : pc[t] = "panicked"
  /\ proc' = Exited(2, "panic")
  /\ UNCHANGED <<outputType, severityLevel, omitKeys, isStdOut, pid, once, pretty,
                 zapLogger, pc, lg, task, last, hist, calls>>

\* zl.go 225-245; called while no Init call is in flight (Cleanup writes once
\* and zapLogger without synchronization); pid is not reset
Cleanup ==
  /\ proc.state = "running"
  /\ \A t \in Threads : pc[t] \in {"idle", "panicked"}
  /\ calls.cleanups < MaxCleanups
  /\ calls' = [calls EXCEPT !.cleanups = @ + 1]
  /\ once' = [done |-> FALSE, m |-> 0]
  /\ pretty' = FALSE
  /\ zapLogger' = NilLogger
  /\ outputType' = PrettyOutput
  /\ severityLevel' = InfoLevel
  /\ omitKeys' = {}
  /\ isStdOut' = FALSE
  /\ hist' = NoHist
  /\ last' = NoLast
  /\ UNCHANGED <<pid, pc, lg, task, proc>>

(***************************************************************************)
(* Sync and the signal-flush task: zl.go 151-187.                          *)
(***************************************************************************)
\* a guard that returns early in Console mode only
SyncFlushesUnlessConsole(out) == out # ConsoleOutput

\* zl.go 154, 165: FALSE when the function returns at once
SyncFlushes(out) == out = PrettyOutput \/ out = FileOutput

\* zl.go 153-161: what a call of Sync does
SyncCall(who) ==
  IF ~SyncFlushes(outputType)
  THEN /\ last' = [NoLast EXCEPT !.kind = "sync", !.who = who, !.outcome = "returned",
                     !.mode = outputType, !.eng = zapLogger, !.cfg = hist.cfg,
                     !.done = hist.bodyDone, !.flushed = FALSE]
       /\ proc' = proc
  ELSE IF zapLogger.nil
  THEN /\ last' = [NoLast EXCEPT !.kind = "sync", !.who = who, !.outcome = "panic",
                     !.mode = outputType, !.eng = zapLogger, !.cfg = hist.cfg,
                     !.done = hist.bodyDone]
       /\ proc' = Exited(2, "panic")
  ELSE /\ last' = [NoLast EXCEPT !.kind = "sync", !.who = who, !.outcome = "returned",
                     !.mode = outputType, !.eng = zapLogger, !.cfg = hist.cfg,
                     !.done = hist.bodyDone, !.flushed = TRUE]
       /\ proc' = proc

Sync ==
  /\ proc.state = "running"
  /\ SyncCall("user")
  /\ UNCHANGED <<outputType, severityLevel, omitKeys, isStdOut, pid, once, pretty,
                 zapLogger, pc, lg, task, hist, calls>>

\* a mapping that gives the termination signal the code of the interrupt
sigCodeSame(s) ==
  CASE s = "interrupt" -> 2
    [] s = "terminated" -> 2
    [] OTHER -> 0

\* zl.go 175-181
sigCode(s) ==
  CASE s = "interrupt" -> 2
    [] s = "terminated" -> 15
    [] OTHER -> 0

\* zl.go 164-172: the goroutine is started and subscribes, unless the mode
\* makes SyncWhenStop return at once
SyncWhenStop ==
  /\ proc.state = "running"
  /\ IF ~SyncFlushes(outputType)
     THEN task' = task
     ELSE /\ \E k \in Tasks : task[k].pc = "none"
          /\ LET k == CHOOSE j \in Tasks :
                        task[j].pc = "none" /\ \A i \in Tasks : task[i].pc = "none" => j <= i
             IN task' = [task EXCEPT ![k].pc = "waiting"]
  /\ UNCHANGED <<outputType, severityLevel, omitKeys, isStdOut, pid, once, pretty,
                 zapLogger, pc, lg, proc, last, hist, calls>>

\* zl.go 173: an interrupt or a termination signal reaches every subscribed task
SigDeliver(s) ==
  /\ proc.state = "running"
  /\ \E k \in Tasks : task[k].pc = "waiting"
  /\ task' = [k \in Tasks |->
                IF task[k].pc = "waiting"
                THEN [task[k] EXCEPT !.pc = "got", !.sig = s] ELSE task[k]]
  /\ UNCHANGED <<outputType, severityLevel, omitKeys, isStdOut, pid, once, pretty,
                 zapLogger, pc, lg, proc, last, hist, calls>>

\* zl.go 183: Debug("GOT_SIGNAL_...")
SigMarker(k) ==
  /\ proc.state = "running"
  /\ task[k].pc = "got"
  /\ FreeCall("signal", "Debug", {}, NoError)
  /\ task' = [task EXCEPT ![k].pc = IF proc'.state = "running" THEN "sync" ELSE "dead",
                          ![k].markers = @ + 1]
  /\ UNCHANGED <<outputType, severityLevel, omitKeys, isStdOut, pid, once, pretty,
                 zapLogger, pc, lg, hist, calls>>

\* zl.go 184: Sync()
SigSync(k) ==
  /\ proc.state = "running"
  /\ task[k].pc = "sync"
  /\ SyncCall("signal")
  /\ task' = [task EXCEPT ![k].pc = IF proc'.state = "running" THEN "exit" ELSE "dead",
                          ![k].syncs = @ + 1,
                          ![k].flushes = IF last'.flushed THEN @ + 1 ELSE @]
  /\ UNCHANGED <<outputType, severityLevel, omitKeys, isStdOut, pid, once, pretty,
                 zapLogger, pc, lg, hist, calls>>

\* zl.go 185: os.Exit(128 + sigCode)
SigExit(k) ==
  /\ proc.state = "running"
  /\ task[k].pc = "exit"
  /\ proc' = Exited(128 + sigCode(task[k].sig), "signal")
  /\ task' = [task EXCEPT ![k].pc = "exited"]
  /\ UNCHANGED <<outputType, severityLevel, omitKeys, isStdOut, pid, once, pretty,
                 zapLogger, pc, lg, last, hist, calls>>


(***************************************************************************)
(* Inputs.                                                                 *)
(***************************************************************************)
\* the key lists given to SetIgnoreKeys: every Key is in one of them
OmitChoices ==
  { {HostnameKey},
    {MessageKey, LevelKey, TimeKey, LoggerKey},
    {CallerKey, FunctionKey, StacktraceKey, VersionKey, HostnameKey, PIDKey} }

\* zl.go 40-58: the steps of a call of Init by thread t
InitBy(t) ==
  \/ InitCall(t)
  \/ InitLock(t)
  \/ InitPretty(t)
  \/ InitEngine(t)
  \/ InitMarker(t)
  \/ InitFinish(t)

InitSteps == \E t \in Threads : InitBy(t)

(***************************************************************************)
(* Spec: the lifecycle.  Threads race on Init, the configuration is set    *)
(* at any time, and free functions are called in every state.              *)
(***************************************************************************)
Next ==
  \/ InitSteps
  \/ Crash
  \/ Cleanup
  \/ \E o \in Outputs \ {PrettyOutput} : SetOutput(o)
  \/ \E l \in Levels \ {InfoLevel, ErrorLevel} : SetLevel(l)
  \/ SetIgnoreKeys({HostnameKey})
  \/ \E op \in {"ErrRet", "Fatal"} : FreeEmit(op, {}, "e1")
  \/ Dump

Spec == Init /\ [][Next]_vars


(***************************************************************************)
(* Claims checked under Spec.                                              *)
(***************************************************************************)
Range(q) == {q[i] : i \in DOMAIN q}

\* C1 (as claimed): once an Init call has returned since the last Cleanup, the
\* guarded body has run exactly once, to its end, and the engine handle is
\* non-nil.
C1_InitRunsOnceAndReturnsInitialized ==
  hist.returned # {} =>
    /\ hist.bodyRuns = 1
    /\ hist.bodyDone
    /\ ~zapLogger.nil

\* C2 (as claimed): an initialization whose body has run has written exactly
\* one INIT_LOGGER record to every sink of the engine, whatever the minimum
\* level.
C2_OneMarkerAtEveryLevel ==
  hist.bodyDone =>
    \A s \in Range(zapLogger.sinks) : hist.markers[s] = 1

\* C2 (amended): an initialization never writes a second INIT_LOGGER record
\* and writes none to a sink the engine does not have; the record is logged at
\* debug level, so once the body has run every sink of the engine holds
\* exactly one when the minimum level at Init was DEBUG and none otherwise.
C2_OneMarkerAtDebugLevel ==
  /\ \A s \in SinkNames : hist.markers[s] <= 1
  /\ \A s \in SinkNames \ Range(zapLogger.sinks) : hist.markers[s] = 0
  /\ ~hist.bodyDone => \A s \in SinkNames : hist.markers[s] = 0
  /\ hist.bodyDone =>
       \A s \in Range(zapLogger.sinks) :
         hist.markers[s] = IF hist.cfg.level = DebugLevel THEN 1 ELSE 0

C2_Witness ==
  /\ hist.bodyDone
  /\ hist.cfg.level = DebugLevel
  /\ hist.cfg.mode = ConsoleAndFileOutput
  /\ hist.markers[Stderr] = 1
  /\ hist.markers[Rotator] = 1
  /\ \A t \in Threads : t \in hist.returned

\* C8 (as claimed): a free function called before the initialization has
\* completed ends the process in checkInit and writes nothing.
C8_EmissionBeforeInitCompletesIsFatal ==
  (last.kind = "emit" /\ last.api = "free" /\ last.who = "user" /\ ~last.done) =>
    /\ last.outcome = "uninit"
    /\ last.written = <<>>
    /\ proc = Exited(1, "checkInit")

\* C8 (amended): a free function called while the engine handle is nil (from
\* process start or the last Cleanup until Init assigns it) ends the process
\* in checkInit with exit code 1, writes no record and renders no line.
C8_EmissionOnNilHandleIsFatal ==
  (last.kind = "emit" /\ last.api = "free" /\ last.who = "user" /\ last.eng.nil) =>
    /\ last.outcome = "uninit"
    /\ last.written = <<>>
    /\ last.sent = 0
    /\ last.lines = 0
    /\ proc = Exited(1, "checkInit")

C8_Witness ==
  /\ calls.cleanups = 1
  /\ pid = ThePid
  /\ last.kind = "emit" /\ last.api = "free" /\ last.who = "user"
  /\ last.op = "ErrRet"
  /\ last.eng.nil
  /\ proc.state = "exited"


(***************************************************************************)
(* SpecSinks: the sink list.  The output mode and the console stream are   *)
(* set, one thread runs Init, a Logger is built, and records are emitted.  *)
(***************************************************************************)
NextSinks ==
  \/ InitBy(1)
  \/ Crash
  \/ Cleanup
  \/ \E o \in Outputs : SetOutput(o)
  \/ SetStdout
  \/ SetIgnoreKeys({HostnameKey})
  \/ New({})
  \/ \E op \in {"Debug", "Info", "Error"} : FreeEmit(op, {}, NoError)
  \/ \E op \in {"Debug", "Info", "Error"} : MethodEmit(op, {}, NoError)

SpecSinks == Init /\ [][NextSinks]_vars

(***************************************************************************)
(* SpecOmit: the omission set.  The omitted keys and the output mode are   *)
(* set, one thread runs Init, a Logger is built and named, and records     *)
(* below and above error level are emitted with and without caller fields. *)
(***************************************************************************)
NextOmit ==
  \/ InitBy(1)
  \/ Crash
  \/ \E o \in Outputs : SetOutput(o)
  \/ \E ks \in OmitChoices : SetIgnoreKeys(ks)
  \/ SetLevel(DebugLevel)
  \/ New({RequestField})
  \/ Named
  \/ \E op \in {"Info", "ErrorErr"} : FreeEmit(op, {UserField}, "e1")
  \/ \E op \in {"Info", "ErrorErr"} : MethodEmit(op, {}, "e1")

SpecOmit == Init /\ [][NextOmit]_vars

(***************************************************************************)
(* SpecLevel: levels.  The minimum level and the output mode are set, one  *)
(* thread runs Init, a Logger is built, and every free function and every  *)
(* Logger method is called.                                                *)
(***************************************************************************)
ErrChoices(op) == IF op = "ErrRet" THEN Errors ELSE IF op \in ErrOps THEN {"e1"} ELSE {NoError}

NextLevel ==
  \/ InitBy(1)
  \/ Crash
  \/ \E o \in {ConsoleAndFileOutput, FileOutput} : SetOutput(o)
  \/ \E l \in Levels : SetLevel(l)
  \/ New({})
  \/ \E op \in FreeOps : \E err \in ErrChoices(op) : FreeEmit(op, {}, err)
  \/ \E op \in FreeOps : \E err \in ErrChoices(op) : MethodEmit(op, {}, err)

SpecLevel == Init /\ [][NextLevel]_vars

(***************************************************************************)
(* SpecSig: Sync and the signal-flush task.  The output mode is set, one   *)
(* thread runs Init, Cleanup resets the state, Sync is called, the task is *)
(* started and a signal is delivered.                                      *)
(***************************************************************************)
Signals == {"interrupt", "terminated"}

\* the signal-flush task alone: no call of Sync from the program's own threads
NextSigTask ==
  \/ InitBy(1)
  \/ Crash
  \/ Cleanup
  \/ \E o \in Outputs \ {PrettyOutput} : SetOutput(o)
  \/ SyncWhenStop
  \/ \E s \in Signals : SigDeliver(s)
  \/ \E k \in Tasks : SigMarker(k) \/ SigSync(k) \/ SigExit(k)

NextSig ==
  \/ NextSigTask
  \/ Sync

SpecSig == Init /\ [][NextSig]_vars

\* zl.go 171-186: the goroutine of the handler is scheduled until it ends
SpecSigFair ==
  /\ Init /\ [][NextSigTask]_vars
  /\ \A k \in Tasks : WF_vars(SigMarker(k) \/ SigSync(k) \/ SigExit(k))


(***************************************************************************)
(* Claims checked under SpecSinks.                                         *)
(***************************************************************************)
\* the sink list the specification gives for an output mode
SinkTable(mode, std) ==
  LET console == IF std THEN Stdout ELSE Stderr
  IN CASE mode = PrettyOutput -> <<Rotator>>
       [] mode = ConsoleAndFileOutput -> <<console, Rotator>>
       [] mode = ConsoleOutput -> <<console>>
       [] mode = FileOutput -> <<Rotator>>

\* C3: the sink list of the engine built by Init is the table's list for the
\* output mode and the console stream selected at Init; a record is written
\* to no other sink: never to the rotating file in Console mode, never to a
\* console stream in File mode, and to standard output only if it was selected.
C3_SinkListMatchesTable ==
  /\ ~zapLogger.nil => zapLogger.sinks = SinkTable(hist.cfg.mode, hist.cfg.stdout)
  /\ (last.kind = "emit" /\ last.api = "free") =>
       /\ Range(last.written) \subseteq Range(SinkTable(last.cfg.mode, last.cfg.stdout))
       /\ last.cfg.mode = ConsoleOutput => Rotator \notin Range(last.written)
       /\ last.cfg.mode = FileOutput => Range(last.written) \cap {Stdout, Stderr} = {}
       /\ Stdout \in Range(last.written) => last.cfg.stdout
       /\ Stderr \in Range(last.written) => ~last.cfg.stdout

C3_Witness ==
  /\ hist.bodyDone
  /\ last.kind = "emit" /\ last.api = "free" /\ last.who = "user"
  /\ last.cfg.mode = ConsoleAndFileOutput /\ last.cfg.stdout
  /\ last.written = <<Stdout, Rotator>>

(***************************************************************************)
(* Claims checked under SpecOmit.                                          *)
(***************************************************************************)
\* C4: a record written by an engine carries no Key of the omission set the
\* engine was built with, in every output mode, the INIT_LOGGER record
\* included.
C4_OmittedKeysAbsent ==
  (last.kind = "emit" /\ last.written # <<>>) =>
    last.keys \cap last.cfg.omit = {}

C4_Witness ==
  /\ last.kind = "emit" /\ last.api = "free" /\ last.op = "ErrorErr"
  /\ last.written # <<>>
  /\ last.cfg.omit = {CallerKey, FunctionKey, StacktraceKey, VersionKey, HostnameKey, PIDKey}
  /\ last.keys = {MessageKey, LevelKey, TimeKey, ErrorField, UserField}

C6_ForwardedAtNamedLevel ==
  (last.kind = "emit" /\ last.sent = 1) =>
    /\ last.zapLvl = last.opLvl
    /\ \A l \in last.prettyLvls : l = last.zapLvl

\* C7 (as claimed, the free function): after Init, ErrRet returns the error it
\* was given and writes one error-level record carrying the error's text.
C7_ErrRetAlwaysWritesOneRecord ==
  (last.kind = "emit" /\ last.api = "free" /\ last.op = "ErrRet" /\ last.sent = 1) =>
    /\ last.ret = last.err
    /\ last.zapLvl = ErrorLevel
    /\ last.written # <<>>
    /\ last.errMsg = ErrorText(last.err)

\* C7 (amended): ErrRet, the free function after Init and the Logger method,
\* returns the error it was given and forwards one error-level record; the
\* record is written, once to each sink and with the error's text in its error
\* field, when the minimum level is ERROR or lower, and not at all when it is
\* FATAL.
C7_ErrRetReturnsErrAndWritesIfEnabled ==
  (last.kind = "emit" /\ last.op = "ErrRet" /\ last.sent = 1) =>
    /\ last.ret = last.err
    /\ last.err \in Errors
    /\ last.zapLvl = ErrorLevel
    /\ IF last.cfg.level <= ErrorLevel
       THEN /\ last.written = SinkTable(last.cfg.mode, last.cfg.stdout)
            /\ ErrorField \in last.keys
            /\ last.errMsg = ErrorText(last.err)
       ELSE last.written = <<>>

C7_Witness ==
  /\ last.kind = "emit" /\ last.api = "free" /\ last.op = "ErrRet"
  /\ last.err = "e2" /\ last.ret = "e2"
  /\ last.errMsg = "text of e2"
  /\ last.written # <<>>

(***************************************************************************)
(* Claims checked under SpecSig.                                           *)
(***************************************************************************)
\* C9 (as claimed): after Init, with the output mode of Init still set, Sync
\* flushes the engine unless the mode is Console.
C9_SyncNoOpOnlyInConsoleMode ==
  (last.kind = "sync" /\ last.done /\ last.mode = last.cfg.mode) =>
    (last.flushed <=> last.mode # ConsoleOutput)

\* C9 (amended): after Init, Sync returns, and it flushes the engine exactly
\* when the output mode set at the call is Pretty or File; it is a no-op in
\* Console and in ConsoleAndFile mode.
C9_SyncFlushesInPrettyAndFileOnly ==
  (last.kind = "sync" /\ last.done) =>
    /\ last.outcome = "returned"
    /\ last.flushed <=> last.mode \in {PrettyOutput, FileOutput}

C9_Witness ==
  /\ last.kind = "sync" /\ last.who = "user" /\ last.done
  /\ last.cfg.mode = ConsoleAndFileOutput
  /\ last.mode = ConsoleAndFileOutput
  /\ ~last.flushed

\* the exit code the specification gives for a signal
ExitCodeOf(s) == IF s = "interrupt" THEN 130 ELSE 143

SignalHandlerOrder ==
  \A k \in Tasks :
    /\ task[k].pc \in {"none", "waiting", "got"} =>
         task[k].markers = 0 /\ task[k].syncs = 0
    /\ task[k].pc = "sync" => task[k].markers = 1 /\ task[k].syncs = 0
    /\ task[k].pc \in {"exit", "exited"} => task[k].markers = 1 /\ task[k].syncs = 1
    /\ task[k].pc = "exited" =>
         /\ proc = Exited(ExitCodeOf(task[k].sig), "signal")
         /\ task[k].sig \in Signals
    /\ task[k].pc = "dead" =>
         /\ last.who = "signal"
         /\ last.eng.nil
         /\ task[k].flushes = 0
         /\ \/ proc = Exited(1, "checkInit") /\ task[k].syncs = 0
            \/ proc = Exited(2, "panic") /\ task[k].syncs = 1
    /\ proc.by = "signal" => \E j \in Tasks : task[j].pc = "exited"

ReinitOmitChoices == { {PIDKey}, {HostnameKey, PIDKey}, {TimeKey} }

NextReinit ==
  \/ InitBy(1)
  \/ Crash
  \/ Cleanup
  \/ \E o \in Outputs : SetOutput(o)
  \/ \E l \in {DebugLevel, WarnLevel} : SetLevel(l)
  \/ \E ks \in ReinitOmitChoices : SetIgnoreKeys(ks)
  \/ SetStdout
  \/ FreeEmit("Info", {}, NoError)

SpecReinit == Init /\ [][NextReinit]_vars

\* the pid a process that has called nothing but the setters and Init caches
FreshPid(keys) == IF PIDKey \in keys THEN 0 ELSE ThePid

\* C11: Cleanup returns every variable of the logging state, the cached pid
\* included, to its default: whenever an Init body has run, after a Cleanup or
\* not, the engine (sink list, omission set, process fields) and the content of
\* the initialization marker are those a fresh process gives for the
\* configuration read by that Init.
C11_ReinitSameAsFreshProcess ==
  /\ (once = [done |-> FALSE, m |-> 0] /\ zapLogger.nil) => pid = 0
  /\ hist.bodyDone =>
       /\ zapLogger = newZapLogger(hist.cfg.mode, hist.cfg.stdout, hist.cfg.level,
                                   hist.cfg.omit)
       /\ hist.console.pid = FreshPid(hist.cfg.omit)

(***************************************************************************)
(* SpecLate: setters called after Init.  One thread configures and runs    *)
(* Init; the setters are then called again, and records are emitted, Sync  *)
(* is called and the signal-flush task runs.                               *)
(***************************************************************************)
NextLate ==
  \/ InitBy(1)
  \/ Crash
  \/ Cleanup
  \/ \E o \in Outputs : SetOutput(o)
  \/ \E l \in {DebugLevel, ErrorLevel} : SetLevel(l)
  \/ SetIgnoreKeys({TimeKey, HostnameKey})
  \/ SetStdout
  \/ \E op \in {"Info", "Error"} : FreeEmit(op, {}, NoError)
  \/ Sync
  \/ SyncWhenStop
  \/ \E s \in Signals : SigDeliver(s)
  \/ \E k \in Tasks : SigMarker(k) \/ SigSync(k) \/ SigExit(k)

\* the package variables, with the setter calls SpecLate follows once an engine exists
InitLate == InitState(MaxLateSetsLate)

SpecLate == InitLate /\ [][NextLate]_vars

\* C12: once the body of Init has run, and until the next Cleanup, a setter
\* changes no observable behaviour: every Sync, the signal-flush task's
\* included, flushes exactly when the output mode read by Init is Pretty or
\* File, and every emission on the default instance is written to the sinks
\* and with the fields of the engine built from the configuration read by Init.
C12_SettersAfterInitChangeNothing ==
  /\ (last.kind = "sync" /\ last.done /\ ~last.eng.nil)
       => (last.flushed <=> SyncFlushes(last.cfg.mode))
  /\ (last.kind = "emit" /\ last.done /\ last.outcome \in {"returned", "exit"})
       => LET eng == newZapLogger(last.cfg.mode, last.cfg.stdout, last.cfg.level,
                                  last.cfg.omit)
          IN /\ last.written = Written(eng, last.zapLvl)
             /\ last.written # <<>> =>
                  last.keys = RecordKeys(eng, last.zapLvl, FALSE, {})

\* C13: a host name resolution that fails during Init, the hostname key not
\* being omitted, never aborts the initialization: no thread panics in Init,
\* the process is not ended by it, and once the body has run the engine is
\* built and its records carry no hostname field.
C13_HostnameFailureDoesNotAbortInit ==
  hist.host = "failed" =>
    /\ \A t \in Threads : pc[t] # "panicked"
    /\ proc.by # "panic"
    /\ hist.bodyDone => (~zapLogger.nil /\ HostnameKey \notin zapLogger.with)

====
